---- MODULE Spec2Model ----
(***************************************************************************)
(* Model of LinkHealthScanner (src/link_health_scanner.py): the crawl      *)
(* coordinator of run(), the fetch workers (_check_url) and the result     *)
(* assembly (_build_summary, _find_unused_links).                          *)
(***************************************************************************)
EXTENDS Integers, Sequences, FiniteSets, TLC

(***************************************************************************)
(* Bounds of the model.                                                    *)
(***************************************************************************)
\* Largest number of links on one page.
MaxLinks == 2
\* Largest max_workers argument tried (the smallest is 0).
MaxWorkersArg == 2
\* Largest max_requests argument tried (the smallest is -1).
MaxRequestsArg == 3
\* Largest max_pages argument tried (the smallest is 0).
MaxPagesArg == 2
\* Largest max_depth argument tried (the smallest is -1).
MaxDepthArg == 2
\* Number of threads that fetch at the same time.
MaxFetchWorkers == 2
\* Largest max_retries argument tried (the smallest is -1).
MaxRetriesArg == 2
\* Largest backoff_factor argument tried, in ticks (the smallest is -1).
MaxBackoffArg == 1
\* The clock advances freely up to this time, and after it only to end a sleep.
MaxClock == 3
\* Largest number of characters of a link after the host.
MaxLinkLen == 4

(***************************************************************************)
(* URLs in parsed form (urlparse): netloc and path.  A URL of the model is *)
(* already canonical: no fragment, no trailing slash.                      *)
(***************************************************************************)
Url(netloc, path) == [netloc |-> netloc, path |-> path]

start_url == Url("example.test", "")
PageA == Url("example.test", "/a")
PageB == Url("example.test", "/b")
External == Url("other.test", "/b")
\* Pages of the deeper site.
PageC == Url("example.test", "/c")
PageD == Url("example.test", "/d")
PageE == Url("example.test", "/e")
\* A page that the sitemap declares and that no page links to.
Orphan == Url("example.test", "/orphan")

\* The URLs of the model, listed in the lexicographic order of their strings
\* ("https://example.test" < ".../a" < ".../b" < ".../orphan" <
\* "https://other.test/b").
UrlOrder == <<start_url, PageA, PageB, Orphan, External, PageC, PageD, PageE>>

Urls == {UrlOrder[i] : i \in 1..Len(UrlOrder)}

UrlRank(u) == CHOOSE i \in 1..Len(UrlOrder) : UrlOrder[i] = u

\* redirected_to of a report that has none (None).
NoUrl == Url("", "")

\* status_code of a report that has none (None).
NoStatusCode == 0

NoContentType == "None"

\* self._base_host
_base_host == start_url.netloc

\* _is_same_domain
IsSameDomain(url) == url.netloc = _base_host

\* sorted(...) of a set of URLs
RECURSIVE SortedUrls(_)
SortedUrls(S) ==
    IF S = {} THEN <<>>
    ELSE LET m == CHOOSE x \in S : \A y \in S : UrlRank(x) <= UrlRank(y)
         IN  <<m>> \o SortedUrls(S \ {m})

Range(s) == {s[i] : i \in 1..Len(s)}

Reversed(s) == [i \in 1..Len(s) |-> s[Len(s) + 1 - i]]

\* All the orders in which a set can be iterated.
Orders(S) ==
    {s \in [1..Cardinality(S) -> S] : \A i, j \in 1..Cardinality(S) : s[i] = s[j] => i = j}

Max(a, b) == IF a >= b THEN a ELSE b

(***************************************************************************)
(* What the server answers to the fetch of one URL, after the retries:     *)
(* a final response, a transport error (requests.RequestException), or an  *)
(* unexpected failure of the worker.                                       *)
(***************************************************************************)
Response(code, ctype, links, history, final, stale) ==
    [kind |-> "response", status_code |-> code, content_type |-> ctype,
     links |-> links, history |-> history, url |-> final, stale |-> stale,
     message |-> ""]

Failure(kind, message) ==
    [kind |-> kind, status_code |-> NoStatusCode, content_type |-> NoContentType,
     links |-> {}, history |-> <<>>, url |-> NoUrl, stale |-> FALSE,
     message |-> message]

\* The URLs that pages link to.
Linked == {start_url, PageA, PageB, External}

LinkSets == {L \in SUBSET Linked : Cardinality(L) <= MaxLinks}

\* The answers of the site's own pages: an HTML page with any of the link
\* sets, a file, an error page (its links are never extracted), a transport
\* error, a failure of the worker.  The external site answers with a page
\* that links back to the start page, or with a file.
Outcomes(url) ==
    IF IsSameDomain(url)
    THEN {Response(200, "text/html", L, <<>>, NoUrl, FALSE) : L \in LinkSets}
         \cup {Response(200, "application/pdf", {}, <<>>, NoUrl, FALSE),
               Response(404, "text/html", {PageA}, <<>>, NoUrl, FALSE),
               Failure("RequestException", "timeout"),
               Failure("Exception", "crash")}
    ELSE {Response(200, "text/html", {start_url}, <<>>, NoUrl, FALSE),
          Response(200, "application/pdf", {}, <<>>, NoUrl, FALSE)}

Issue(label, codes) == [label |-> label, codes |-> codes]

\* LinkReport
LinkReport(url, status, status_code, redirected_to, issues, outdated, ctype, links_found) ==
    [url |-> url, referrers |-> <<>>, status |-> status, status_code |-> status_code,
     redirected_to |-> redirected_to, issues |-> issues,
     outdated_signals |-> outdated, content_type |-> ctype,
     links_found |-> links_found]

\* _check_url: the status of a response
ClassifyAbove(status_code) ==
    IF status_code > 500 THEN "server-error"
    ELSE IF status_code > 400 THEN "broken"
    ELSE IF status_code > 300 THEN "redirect"
    ELSE "ok"

Classify(status_code) ==
    IF status_code >= 500 THEN "server-error"
    ELSE IF status_code >= 400 THEN "broken"
    ELSE IF status_code >= 300 THEN "redirect"
    ELSE "ok"

ClassIssues(status_code) ==
    IF status_code >= 500 THEN <<Issue("Server error", <<>>)>>
    ELSE IF status_code >= 400 THEN <<Issue("Client error", <<>>)>>
    ELSE <<>>

\* The values of the Content-Type header that servers send (no header:
\* NoContentType).
ContentTypes ==
    {"text/html", "Text/HTML; charset=UTF-8", "application/xhtml+xml",
     "application/pdf", ""}

\* content_type.lower()
Lower(content_type) ==
    IF content_type = "Text/HTML; charset=UTF-8" THEN "text/html; charset=utf-8"
    ELSE content_type

\* "text/html" in s
HasTextHtml(s) == s \in {"text/html", "text/html; charset=utf-8"}

\* _check_url: is the response a page whose links are extracted?
IsHtmlPage(r) ==
    /\ r.content_type # NoContentType
    /\ r.content_type # ""
    /\ HasTextHtml(Lower(r.content_type))
    /\ r.status_code < 400

\* links_found of the report of an HTML page
LinksFoundNone(links) == <<>>

LinksFound(links) == SortedUrls(links)

\* _check_url(url) when the fetch ends with outcome r: what the future holds.
CheckUrl(url, r) ==
    IF r.kind = "Exception"
    THEN [raised |-> TRUE, message |-> r.message,
          report |-> LinkReport(url, "unknown", NoStatusCode, NoUrl, <<>>, <<>>,
                                NoContentType, <<>>),
          discovered_links |-> {}, is_html |-> FALSE]
    ELSE IF r.kind = "RequestException"
    THEN [raised |-> FALSE, message |-> "",
          report |-> LinkReport(url, "error", NoStatusCode, NoUrl,
                                <<Issue(r.message, <<>>)>>, <<>>, NoContentType, <<>>),
          discovered_links |-> {}, is_html |-> FALSE]
    ELSE LET redirect == IF r.history # <<>>
                         THEN <<Issue("Redirect chain", r.history \o <<r.status_code>>)>>
                         ELSE <<>>
             html == IsHtmlPage(r)
         IN  [raised |-> FALSE, message |-> "",
              report |-> LinkReport(url, Classify(r.status_code), r.status_code,
                                    IF r.history # <<>> THEN r.url ELSE NoUrl,
                                    redirect \o ClassIssues(r.status_code),
                                    IF html /\ r.stale THEN <<"Contains 'coming soon'">>
                                    ELSE <<>>,
                                    r.content_type,
                                    IF html THEN LinksFound(r.links) ELSE <<>>),
              discovered_links |-> IF html THEN r.links ELSE {},
              is_html |-> html]

(***************************************************************************)
(* State.  The configuration is fixed by __init__; the rest are the locals *)
(* of run(), the futures of the worker pool, and the result run() returns. *)
(***************************************************************************)
VARIABLES
    arg_max_workers,    \* the max_workers argument of __init__
    max_workers,        \* self.max_workers
    max_requests, max_pages, max_depth,
    include_external, check_orphans,
    site,               \* the site crawled, when it is fixed: url -> answer
    queue,              \* deque of <<url, depth>>
    queued_urls, visited, in_progress,
    referrer_map,       \* url -> set of urls (no key: the empty set)
    sitemap_candidates,
    reports,            \* list of LinkReport
    pages_crawled, completed_requests,
    futures,            \* the dict futures, in insertion order, with each future's state
    done,               \* ids of the futures wait() returned, not yet processed
    pc,                 \* where the coordinator is in run()
    result,             \* what run() returns
    next_id,            \* number of futures submitted so far
    dispatch_count,     \* history: url -> number of times submitted to a worker
    fetch_depth,        \* history: submitted url -> depth it was last submitted at
    expanded,           \* history: urls whose links were expanded, in order
    sitemap_fetch,      \* history: the answers to the requests for /sitemap.xml
    enqueued            \* history: the urls ever appended to queue

config == <<arg_max_workers, max_workers, max_requests, max_pages, max_depth,
            include_external, check_orphans, site>>

locals == <<queue, queued_urls, visited, in_progress, referrer_map,
            sitemap_candidates, reports, pages_crawled, completed_requests>>

history == <<dispatch_count, fetch_depth, expanded, sitemap_fetch, enqueued>>

(***************************************************************************)
(* The HTTP fetcher: the retry and rate settings fixed by __init__, the    *)
(* rate gate, the clock, and the worker threads inside _check_url.  Times  *)
(* are whole ticks of the clock.                                           *)
(***************************************************************************)
VARIABLES
    arg_retry_statuses, \* the retry_statuses argument of __init__
    retry_statuses,     \* self.retry_statuses
    max_retries,        \* self.max_retries
    backoff_factor,     \* self.backoff_factor, in ticks
    rate_limit,         \* self.rate_limit, requests per second
    _min_interval,      \* self._min_interval, in ticks
    _rate_lock,         \* the thread that holds self._rate_lock
    _last_request_time, \* self._last_request_time
    monotonic,          \* what time.monotonic() returns
    fetches,            \* thread -> where it is in _check_url, and what it did
    gate_log            \* history: the values stamped on _last_request_time

fetch_config == <<arg_retry_statuses, retry_statuses, max_retries, backoff_factor,
                  rate_limit, _min_interval>>

fetcher == <<fetch_config, _rate_lock, _last_request_time, monotonic, fetches,
             gate_log>>

(***************************************************************************)
(* One call of _check_url on its own: the outcome of the fetch it is given *)
(* and what it returns.                                                    *)
(***************************************************************************)
VARIABLES
    probe,              \* the outcome of _request_with_retries, once given
    checked             \* what _check_url returned, once it has

prober == <<probe, checked>>

(***************************************************************************)
(* Calls of _normalize_link on their own: the link given, what the call    *)
(* returned, and what a second call on that result returned.               *)
(***************************************************************************)
VARIABLES
    raw_link,           \* the link, once given
    normalized_once,    \* _normalize_link(base, link), once it has returned
    normalized_twice    \* _normalize_link(base, that result)

normalizer == <<raw_link, normalized_once, normalized_twice>>

vars == <<config, locals, futures, done, pc, result, next_id, history, fetcher,
          prober, normalizer>>

\* The keys of the summary dict, _build_summary.
SummaryKeys == {"total", "ok", "broken", "server-error", "redirect", "error",
                "outdated", "unused"}

\* result before run() returns
NoResult == [reports |-> <<>>, summary |-> [k \in SummaryKeys |-> 0],
             unused_links |-> <<>>, sitemap_only_links |-> <<>>]

\* An entry of queue, and the value of a key of futures.
Entry(url, depth) == [url |-> url, depth |-> depth]

\* __init__: self.max_workers = max(1, max_workers)
InitMaxWorkers(arg) == Max(1, arg)

\* The ceilings tried: every value of each of them, the other three at their
\* largest value.
Ceilings ==
    {c \in [max_workers : 0..MaxWorkersArg, max_requests : -1..MaxRequestsArg,
            max_pages : 0..MaxPagesArg, max_depth : -1..MaxDepthArg] :
        LET w == c.max_workers = MaxWorkersArg
            r == c.max_requests = MaxRequestsArg
            p == c.max_pages = MaxPagesArg
            d == c.max_depth = MaxDepthArg
        IN  \/ w /\ r /\ p
            \/ w /\ r /\ d
            \/ w /\ p /\ d
            \/ r /\ p /\ d}

\* The server may answer anything to each fetch.
AnySite == site = <<>>

\* What future.result() can hold for url: any answer, or the answer of the
\* fixed site.
Answers(url) == IF site = <<>> THEN Outcomes(url) ELSE {site[1][url]}

\* run(), lines 126-140: the locals of run() before its loop
RunLocals ==
    /\ queue = <<Entry(start_url, 0)>>
    /\ queued_urls = {start_url}
    /\ visited = {}
    /\ in_progress = {}
    /\ referrer_map = [u \in Urls |-> {}]
    /\ sitemap_candidates = {}
    /\ reports = <<>>
    /\ pages_crawled = 0
    /\ completed_requests = 0
    /\ futures = <<>>
    /\ done = {}
    /\ pc = "sitemap"
    /\ result = NoResult
    /\ next_id = 0
    /\ dispatch_count = [u \in Urls |-> 0]
    /\ fetch_depth = [u \in {} |-> 0]
    /\ expanded = <<>>
    /\ sitemap_fetch = <<>>
    /\ enqueued = {start_url}

\* One second, in ticks of the clock (the 1.0 of _min_interval).
Second == 2

\* self.rate_limit when there is no rate limit (None).
NoRateLimit == 0

\* self._rate_lock when no thread holds it.
Unlocked == 0

\* An optional argument of __init__: None, or a value.
NoArg == [given |-> FALSE, value |-> 0]

Arg(value) == [given |-> TRUE, value |-> value]

NoRetryStatusesArg == [given |-> FALSE, codes |-> {}]

RetryStatusesArg(codes) == [given |-> TRUE, codes |-> codes]

DefaultRetryStatuses == {408, 425, 429, 500, 502, 503, 504}

\* __init__: set(retry_statuses or {408, 425, 429, 500, 502, 503, 504})
InitRetryStatuses(arg) ==
    IF arg.given /\ arg.codes # {} THEN arg.codes ELSE DefaultRetryStatuses

\* __init__: rate_limit if rate_limit and rate_limit > 0 else None
InitRateLimit(arg) ==
    IF arg.given /\ arg.value # 0 /\ arg.value > 0 THEN arg.value ELSE NoRateLimit

\* __init__: 1.0 / self.rate_limit if self.rate_limit else 0.0
InitMinInterval(rate) == IF rate # NoRateLimit THEN Second \div rate ELSE 0

\* __init__: max(0, max_retries)
InitMaxRetries(arg) == Max(0, arg)

\* __init__: max(0.0, backoff_factor)
InitBackoffFactor(arg) == Max(0, arg)

\* The threads of the pool that run _check_url.
FetchWorkers == 1..MaxFetchWorkers

\* A thread that has not been given a URL.
IdleFetch ==
    [pc |-> "idle", attempt |-> 0, wake |-> 0, delay |-> 0, log |-> <<>>,
     reports |-> <<>>, passes |-> 0]

\* The gate, the clock and the threads after __init__.
FetcherAtRest ==
    /\ _rate_lock = Unlocked
    /\ _last_request_time = 0
    /\ monotonic = 0
    /\ fetches = [w \in FetchWorkers |-> IdleFetch]
    /\ gate_log = <<>>

\* No call of _normalize_link on its own.
NormalizerAtRest ==
    /\ raw_link = <<>>
    /\ normalized_once = <<>>
    /\ normalized_twice = <<>>

\* No call of _check_url on its own.
ProberAtRest ==
    /\ probe = <<>>
    /\ checked = <<>>
    /\ NormalizerAtRest

\* __init__ with the default retry and rate arguments.
FetcherDefaults ==
    /\ arg_retry_statuses = NoRetryStatusesArg
    /\ retry_statuses = InitRetryStatuses(NoRetryStatusesArg)
    /\ max_retries = InitMaxRetries(2)
    /\ backoff_factor = InitBackoffFactor(Second \div 2)
    /\ rate_limit = InitRateLimit(NoArg)
    /\ _min_interval = InitMinInterval(InitRateLimit(NoArg))
    /\ FetcherAtRest

Init ==
    /\ \E c \in Ceilings :
        /\ arg_max_workers = c.max_workers
        /\ max_requests = c.max_requests
        /\ max_pages = c.max_pages
        /\ max_depth = c.max_depth
    /\ max_workers = InitMaxWorkers(arg_max_workers)
    /\ include_external \in BOOLEAN
    /\ check_orphans \in BOOLEAN
    /\ AnySite
    /\ RunLocals
    /\ FetcherDefaults
    /\ ProberAtRest

(***************************************************************************)
(* _fetch_sitemap_urls: one GET of /sitemap.xml, not retried.  The answer  *)
(* is a failure (non-200, transport error, XML parse error) or a document  *)
(* with <loc> entries; the entries kept are the same-domain ones.          *)
(***************************************************************************)
SitemapDocs == {{PageA, Orphan, External}}

FetchSitemapUrls(ok, locs) ==
    IF ~ok THEN {} ELSE {u \in locs : IsSameDomain(u)}

\* run(), line 142: the condition of the main loop
LoopConditionFrontierOnly(q, f, completed) ==
    q # <<>> /\ completed < max_requests

LoopCondition(q, f, completed) ==
    (q # <<>> \/ f # <<>>) /\ completed < max_requests

LoopHead(q, f, completed) ==
    IF LoopCondition(q, f, completed) THEN "admit" ELSE "finish"

\* run(), lines 132-138
LoadSitemapSeeding ==
    /\ pc = "sitemap"
    /\ IF check_orphans
       THEN \E ok \in BOOLEAN, locs \in SitemapDocs :
                LET seeds == SortedUrls(FetchSitemapUrls(ok, locs))
                IN  /\ sitemap_candidates' = FetchSitemapUrls(ok, locs)
                    /\ sitemap_fetch' = Append(sitemap_fetch, [ok |-> ok, locs |-> locs])
                    /\ queue' = queue \o [i \in 1..Len(seeds) |-> Entry(seeds[i], 1)]
                    /\ queued_urls' = queued_urls \cup Range(seeds)
       ELSE /\ sitemap_candidates' = {}
            /\ UNCHANGED <<sitemap_fetch, queue, queued_urls>>
    /\ pc' = LoopHead(queue, futures, completed_requests)
    /\ UNCHANGED <<config, fetcher, prober, normalizer, visited, in_progress, referrer_map,
                   reports, pages_crawled, completed_requests, futures, done,
                   result, next_id, dispatch_count, fetch_depth, expanded, enqueued>>

LoadSitemap ==
    /\ pc = "sitemap"
    /\ IF check_orphans
       THEN \E ok \in BOOLEAN, locs \in SitemapDocs :
                /\ sitemap_candidates' = FetchSitemapUrls(ok, locs)
                /\ sitemap_fetch' = Append(sitemap_fetch, [ok |-> ok, locs |-> locs])
       ELSE /\ sitemap_candidates' = {}
            /\ UNCHANGED sitemap_fetch
    /\ pc' = LoopHead(queue, futures, completed_requests)
    /\ UNCHANGED <<config, fetcher, prober, normalizer, queue, queued_urls, visited, in_progress, referrer_map,
                   reports, pages_crawled, completed_requests, futures, done,
                   result, next_id, dispatch_count, fetch_depth, expanded, enqueued>>

\* run(), lines 143-147: the condition of the admission loop
CanAdmitNoRequestCap(q, f, completed) ==
    /\ q # <<>>
    /\ Len(f) < max_workers

CanAdmitNoWorkerCap(q, f, completed) ==
    /\ q # <<>>
    /\ (completed + Len(f)) < max_requests

CanAdmit(q, f, completed) ==
    /\ q # <<>>
    /\ Len(f) < max_workers
    /\ (completed + Len(f)) < max_requests

\* run(), line 150: a dequeued URL that was already fetched or is in flight
AlreadySeenAlways(url) == TRUE

AlreadySeen(url) == url \in visited \/ url \in in_progress

\* run(), lines 148-154: one iteration of the admission loop
Admit ==
    /\ pc = "admit"
    /\ CanAdmit(queue, futures, completed_requests)
    /\ LET url == Head(queue).url
           depth == Head(queue).depth
       IN  /\ queue' = Tail(queue)
           /\ queued_urls' = queued_urls \ {url}
           /\ IF AlreadySeen(url)
              THEN UNCHANGED <<in_progress, futures, next_id, dispatch_count,
                               fetch_depth>>
              ELSE /\ in_progress' = in_progress \cup {url}
                   /\ futures' = Append(futures,
                          [id |-> next_id + 1, url |-> url, depth |-> depth,
                           state |-> "running"])
                   /\ next_id' = next_id + 1
                   /\ dispatch_count' =
                          [dispatch_count EXCEPT ![url] = dispatch_count[url] + 1]
                   /\ fetch_depth' =
                          [u \in DOMAIN fetch_depth \cup {url} |->
                              IF u = url THEN depth ELSE fetch_depth[u]]
    /\ UNCHANGED <<config, fetcher, prober, normalizer, visited, referrer_map, sitemap_candidates, reports,
                   pages_crawled, completed_requests, done, pc, result, expanded,
                   sitemap_fetch, enqueued>>

\* run(), lines 156-159: the admission loop is over; leave or wait
EndAdmit ==
    /\ pc = "admit"
    /\ ~CanAdmit(queue, futures, completed_requests)
    /\ pc' = IF futures = <<>> THEN "finish" ELSE "wait"
    /\ UNCHANGED <<config, fetcher, prober, normalizer, locals, futures, done, result, next_id, history>>

\* A worker thread ends _check_url(url): the future is done.  What it holds
\* is the server's answer, which nothing in run() influences; the model draws
\* it where the coordinator reads it, at future.result() in ProcessDone.
WorkerHangs(i) ==
    /\ i \in 1..Len(futures)
    /\ futures[i].state = "running"
    /\ UNCHANGED vars

WorkerCompletes(i) ==
    /\ i \in 1..Len(futures)
    /\ futures[i].state = "running"
    /\ futures' = [futures EXCEPT ![i].state = "done"]
    /\ UNCHANGED <<config, fetcher, prober, normalizer, locals, done, pc, result, next_id, history>>

\* run(), line 159: wait(FIRST_COMPLETED) returns the futures that are done
Wait ==
    /\ pc = "wait"
    /\ \E i \in 1..Len(futures) : futures[i].state = "done"
    /\ done' = {futures[i].id : i \in {j \in 1..Len(futures) : futures[j].state = "done"}}
    /\ pc' = "process"
    /\ UNCHANGED <<config, fetcher, prober, normalizer, locals, futures, result, next_id, history>>

\* run(), lines 175-181: are the links of the fetched page expanded?
ShouldExpandNoPageCap(is_html, report, depth) ==
    /\ is_html
    /\ report.status_code # NoStatusCode
    /\ report.status_code < 400
    /\ depth < max_depth

ShouldExpandNoDepthCap(is_html, report, depth) ==
    /\ is_html
    /\ report.status_code # NoStatusCode
    /\ report.status_code < 400
    /\ pages_crawled < max_pages

ShouldExpand(is_html, report, depth) ==
    /\ is_html
    /\ report.status_code # NoStatusCode
    /\ report.status_code < 400
    /\ pages_crawled < max_pages
    /\ depth < max_depth

\* run(), lines 184-187: a link that is not skipped as external
InScopeAlways(normalized) == TRUE

InScope(normalized) == include_external \/ IsSameDomain(normalized)

\* run(), line 188: referrer_map[normalized].add(url)
RecordReferrerSwapped(map, normalized, url) ==
    [map EXCEPT ![url] = @ \cup {normalized}]

RecordReferrer(map, normalized, url) ==
    [map EXCEPT ![normalized] = @ \cup {url}]

\* run(), lines 189-193: a link that is not enqueued again
KnownUnlessQueued(normalized, vis, inprog, qd) ==
    normalized \in vis \/ normalized \in inprog

Known(normalized, vis, inprog, qd) ==
    normalized \in vis \/ normalized \in inprog \/ normalized \in qd

\* run(), line 195: queue.append((normalized, depth + 1))
EnqueueLeft(q, entry) == <<entry>> \o q

Enqueue(q, entry) == Append(q, entry)

\* run(), lines 183-196: the loop over discovered_links, taken in the order
\* `order`; st holds queue, queued_urls and referrer_map.
RECURSIVE ExpandLinks(_, _, _, _, _, _)
ExpandLinks(order, url, depth, vis, inprog, st) ==
    IF order = <<>> THEN st
    ELSE LET normalized == Head(order)
             map == RecordReferrer(st.referrer_map, normalized, url)
             next ==
                 IF ~InScope(normalized) THEN st
                 ELSE IF Known(normalized, vis, inprog, st.queued_urls)
                 THEN [st EXCEPT !.referrer_map = map]
                 ELSE [queue |-> Enqueue(st.queue, Entry(normalized, depth + 1)),
                       queued_urls |-> st.queued_urls \cup {normalized},
                       referrer_map |-> map]
         IN  ExpandLinks(Tail(order), url, depth, vis, inprog, next)

\* run(), line 170: sorted(referrer_map.get(url, []))
ReportReferrersNone(url) == <<>>

ReportReferrers(url) == SortedUrls(referrer_map[url])

\* run(), line 172: visited.add(url)
MarkVisitedForgotten(vis, url) == vis

MarkVisited(vis, url) == vis \cup {url}

\* run(), lines 164-168: the result of a future, or the report made for a
\* worker that raised.
FutureResultKeepsPartial(url, outcome) ==
    LET got == CheckUrl(url, outcome)
    IN  [report |-> got.report, discovered_links |-> got.discovered_links,
         is_html |-> got.is_html]

FutureResultNoMessage(url, outcome) ==
    LET got == CheckUrl(url, outcome)
    IN  IF got.raised
        THEN [report |-> LinkReport(url, "error", NoStatusCode, NoUrl, <<>>, <<>>,
                                    NoContentType, <<>>),
              discovered_links |-> {}, is_html |-> FALSE]
        ELSE [report |-> got.report, discovered_links |-> got.discovered_links,
              is_html |-> got.is_html]

FutureResult(url, outcome) ==
    LET got == CheckUrl(url, outcome)
    IN  IF got.raised
        THEN [report |-> LinkReport(url, "error", NoStatusCode, NoUrl,
                                    <<Issue(got.message, <<>>)>>, <<>>,
                                    NoContentType, <<>>),
              discovered_links |-> {}, is_html |-> FALSE]
        ELSE [report |-> got.report, discovered_links |-> got.discovered_links,
              is_html |-> got.is_html]

RemoveAt(s, i) == [j \in 1..(Len(s) - 1) |-> IF j < i THEN s[j] ELSE s[j + 1]]

\* run(), lines 160-199: one iteration of `for future in done`
ProcessDone(i) ==
    /\ pc = "process"
    /\ i \in 1..Len(futures)
    /\ futures[i].id \in done
    /\ \E outcome \in Answers(futures[i].url) :
       LET url == futures[i].url
           depth == futures[i].depth
           got == FutureResult(url, outcome)
           report == [got.report EXCEPT !.referrers = ReportReferrers(url)]
           vis == MarkVisited(visited, url)
           inprog == in_progress \ {url}
           completed == completed_requests + 1
           rest == RemoveAt(futures, i)
           left == IF completed >= max_requests THEN {} ELSE done \ {futures[i].id}
       IN  /\ futures' = rest
           /\ in_progress' = inprog
           /\ reports' = Append(reports, report)
           /\ visited' = vis
           /\ completed_requests' = completed
           /\ IF ShouldExpand(got.is_html, report, depth)
              THEN /\ pages_crawled' = pages_crawled + 1
                   /\ expanded' = Append(expanded, url)
                   /\ \E order \in Orders(got.discovered_links) :
                          LET st == ExpandLinks(order, url, depth, vis, inprog,
                                        [queue |-> queue, queued_urls |-> queued_urls,
                                         referrer_map |-> referrer_map])
                          IN  /\ queue' = st.queue
                              /\ queued_urls' = st.queued_urls
                              /\ referrer_map' = st.referrer_map
                              /\ enqueued' = enqueued \cup st.queued_urls
                              /\ pc' = IF left = {}
                                       THEN LoopHead(st.queue, rest, completed)
                                       ELSE "process"
              ELSE /\ UNCHANGED <<pages_crawled, expanded, queue, queued_urls,
                                  referrer_map, enqueued>>
                   /\ pc' = IF left = {} THEN LoopHead(queue, rest, completed)
                            ELSE "process"
           /\ done' = left
    /\ UNCHANGED <<config, fetcher, prober, normalizer, sitemap_candidates, result, next_id, dispatch_count,
                   fetch_depth, sitemap_fetch>>

\* _build_summary
RECURSIVE CountReportsAnsweredOnly(_, _)
RECURSIVE CountReports(_, _)
CountReportsAnsweredOnly(rs, summary) ==
    IF rs = <<>> THEN summary
    ELSE LET report == Head(rs)
             s1 == IF report.status \in DOMAIN summary /\ report.status_code # NoStatusCode
                   THEN [summary EXCEPT ![report.status] = @ + 1]
                   ELSE summary
             s2 == IF report.outdated_signals # <<>>
                   THEN [s1 EXCEPT !["outdated"] = @ + 1]
                   ELSE s1
         IN  CountReportsAnsweredOnly(Tail(rs), s2)

CountReports(rs, summary) ==
    IF rs = <<>> THEN summary
    ELSE LET report == Head(rs)
             s1 == IF report.status \in DOMAIN summary
                   THEN [summary EXCEPT ![report.status] = @ + 1]
                   ELSE summary
             s2 == IF report.outdated_signals # <<>>
                   THEN [s1 EXCEPT !["outdated"] = @ + 1]
                   ELSE s1
         IN  CountReports(Tail(rs), s2)

BuildSummary(rs) ==
    CountReports(rs, [k \in SummaryKeys |-> IF k = "total" THEN Len(rs) ELSE 0])

\* _find_unused_links: <<orphans, sitemap_only>>
FindUnusedLinksUnsorted(rs, sitemap_urls, visited_urls) ==
    LET orphans == {rs[i].url : i \in {j \in 1..Len(rs) :
                        /\ IsSameDomain(rs[j].url)
                        /\ rs[j].url # start_url
                        /\ rs[j].referrers = <<>>}}
        sitemap_only == {u \in sitemap_urls :
                            IsSameDomain(u) /\ u \notin visited_urls}
    IN  <<Reversed(SortedUrls(orphans)), Reversed(SortedUrls(sitemap_only))>>

FindUnusedLinksVisitedToo(rs, sitemap_urls, visited_urls) ==
    LET orphans == {rs[i].url : i \in {j \in 1..Len(rs) :
                        /\ IsSameDomain(rs[j].url)
                        /\ rs[j].url # start_url
                        /\ rs[j].referrers = <<>>}}
        sitemap_only == {u \in sitemap_urls : IsSameDomain(u)}
    IN  <<SortedUrls(orphans), SortedUrls(sitemap_only)>>

FindUnusedLinks(rs, sitemap_urls, visited_urls) ==
    LET orphans == {rs[i].url : i \in {j \in 1..Len(rs) :
                        /\ IsSameDomain(rs[j].url)
                        /\ rs[j].url # start_url
                        /\ rs[j].referrers = <<>>}}
        sitemap_only == {u \in sitemap_urls :
                            IsSameDomain(u) /\ u \notin visited_urls}
    IN  <<SortedUrls(orphans), SortedUrls(sitemap_only)>>

\* run(), lines 201-216: the reports of the result
FinalReportsRefreshed ==
    [i \in 1..Len(reports) |->
        [reports[i] EXCEPT !.referrers = SortedUrls(referrer_map[reports[i].url])]]

FinalReports == reports

\* run(), lines 201-216
FinishCountsOrphansOnly ==
    /\ pc = "finish"
    /\ LET summary == BuildSummary(FinalReports)
           unused == IF check_orphans
                     THEN FindUnusedLinks(FinalReports, sitemap_candidates, visited)
                     ELSE <<<<>>, <<>>>>
       IN  result' = [reports |-> FinalReports,
                      summary |-> [summary EXCEPT !["unused"] =
                                      IF check_orphans THEN Len(unused[1]) ELSE 0],
                      unused_links |-> unused[1],
                      sitemap_only_links |-> unused[2]]
    /\ pc' = "done"
    /\ UNCHANGED <<config, fetcher, prober, normalizer, locals, futures, done, next_id, history>>

Finish ==
    /\ pc = "finish"
    /\ LET summary == BuildSummary(FinalReports)
           unused == IF check_orphans
                     THEN FindUnusedLinks(FinalReports, sitemap_candidates, visited)
                     ELSE <<<<>>, <<>>>>
       IN  result' = [reports |-> FinalReports,
                      summary |-> [summary EXCEPT !["unused"] =
                                      IF check_orphans
                                      THEN Len(unused[1]) + Len(unused[2])
                                      ELSE 0],
                      unused_links |-> unused[1],
                      sitemap_only_links |-> unused[2]]
    /\ pc' = "done"
    /\ UNCHANGED <<config, fetcher, prober, normalizer, locals, futures, done, next_id, history>>

Next ==
    \/ LoadSitemap
    \/ Admit
    \/ EndAdmit
    \/ \E i \in 1..MaxWorkersArg + 1 : WorkerCompletes(i)
    \/ Wait
    \/ \E i \in 1..MaxWorkersArg + 1 : ProcessDone(i)
    \/ Finish

Spec == Init /\ [][Next]_vars

(***************************************************************************)
(* The crawl of a fixed site, deeper than the pages above: what differs    *)
(* between two runs is only the order in which the fetches complete.  The  *)
(* start page links to /a and /b, /b to /c, /d to /e; /a and /c vary.      *)
(***************************************************************************)
Page(links) == Response(200, "text/html", links, <<>>, NoUrl, FALSE)

File == Response(200, "application/pdf", {}, <<>>, NoUrl, FALSE)

Sites ==
    {[u \in Urls |->
        CASE u = start_url -> Page({PageA, PageB})
          [] u = PageA -> a
          [] u = PageB -> Page({PageC})
          [] u = PageC -> c
          [] u = PageD -> Page({PageE})
          [] OTHER -> File] :
     a \in {Page({PageD}), Page({}),
            Response(404, "text/html", {PageD}, <<>>, NoUrl, FALSE)},
     c \in {Page({PageD}), Page({PageE})}}

\* max_requests and max_pages are out of reach: one more than the URLs.
InitSite ==
    /\ arg_max_workers \in 1..MaxWorkersArg
    /\ max_workers = InitMaxWorkers(arg_max_workers)
    /\ max_requests = Cardinality(Urls) + 1
    /\ max_pages = Cardinality(Urls) + 1
    /\ max_depth \in 0..MaxDepthArg + 1
    /\ include_external = FALSE
    /\ check_orphans \in BOOLEAN
    /\ site \in {<<f>> : f \in Sites}
    /\ RunLocals
    /\ FetcherDefaults
    /\ ProberAtRest

SpecSite == InitSite /\ [][Next]_vars

\* The coordinator thread keeps running, and every worker ends its fetch:
\* each HTTP attempt returns or times out (timeout=self.timeout).
Fairness ==
    /\ WF_vars(LoadSitemap)
    /\ WF_vars(Admit)
    /\ WF_vars(EndAdmit)
    /\ WF_vars(Wait)
    /\ WF_vars(\E i \in 1..MaxWorkersArg + 1 : ProcessDone(i))
    /\ WF_vars(Finish)
    /\ \A i \in 1..MaxWorkersArg + 1 : WF_vars(WorkerCompletes(i))

\* The runs whose end is followed: same-domain crawls with the sitemap read,
\* under each of the worker and request ceilings tried.
InitLive ==
    /\ \E c \in Ceilings :
        /\ arg_max_workers = c.max_workers
        /\ max_requests = c.max_requests
        /\ max_pages = MaxPagesArg /\ c.max_pages = MaxPagesArg
        /\ max_depth = MaxDepthArg /\ c.max_depth = MaxDepthArg
    /\ max_workers = InitMaxWorkers(arg_max_workers)
    /\ include_external = FALSE
    /\ check_orphans = TRUE
    /\ AnySite
    /\ RunLocals
    /\ FetcherDefaults
    /\ ProberAtRest

LiveSpec == InitLive /\ [][Next]_vars /\ Fairness

(***************************************************************************)
(* The HTTP fetcher: _check_url calls _request_with_retries, which passes  *)
(* the rate gate (_throttle) before each attempt and sleeps a backoff      *)
(* (_sleep_backoff) after each attempt that it retries.                    *)
(***************************************************************************)
\* The status codes a server answers with.
AttemptCodes == {200, 404, 503}

\* What one session.get can end with: a response, or a transport error.
AttemptOutcomes ==
    {Response(code, "application/pdf", {}, <<>>, NoUrl, FALSE) : code \in AttemptCodes}
    \cup {Failure("RequestException", "timeout")}

\* The retry_statuses arguments tried.
RetryStatusesArgs ==
    {NoRetryStatusesArg, RetryStatusesArg({}), RetryStatusesArg({404})}

\* The rate_limit arguments tried: None, none or less, and the rates whose
\* interval is a whole number of ticks.
RateLimitArgs ==
    {NoArg} \cup {Arg(v) : v \in {r \in -1..Second : r <= 0 \/ Second % r = 0}}

\* The settings tried: without a rate limit, every retry setting; with a
\* rate limit, one retry on the default statuses, without backoff and, at the
\* highest rate, with it.
FetchConfigs ==
    {c \in [retry_statuses : RetryStatusesArgs, max_retries : -1..MaxRetriesArg,
            backoff_factor : -1..MaxBackoffArg, rate_limit : RateLimitArgs] :
        \/ InitRateLimit(c.rate_limit) = NoRateLimit
        \/ /\ c.retry_statuses = NoRetryStatusesArg
           /\ c.max_retries = 1
           /\ \/ c.backoff_factor = 0
              \/ c.backoff_factor = 1 /\ c.rate_limit = Arg(Second)}

\* The URL a thread fetches.
FetchUrl(w) == UrlOrder[w]

\* __init__ with the retry and rate arguments tried; run() is not started.
InitFetch ==
    /\ arg_max_workers = MaxWorkersArg
    /\ max_workers = InitMaxWorkers(arg_max_workers)
    /\ max_requests = MaxRequestsArg
    /\ max_pages = MaxPagesArg
    /\ max_depth = MaxDepthArg
    /\ include_external = FALSE
    /\ check_orphans = TRUE
    /\ AnySite
    /\ RunLocals
    /\ \E c \in FetchConfigs :
        /\ arg_retry_statuses = c.retry_statuses
        /\ retry_statuses = InitRetryStatuses(c.retry_statuses)
        /\ max_retries = InitMaxRetries(c.max_retries)
        /\ backoff_factor = InitBackoffFactor(c.backoff_factor)
        /\ rate_limit = InitRateLimit(c.rate_limit)
        /\ _min_interval = InitMinInterval(InitRateLimit(c.rate_limit))
    /\ FetcherAtRest
    /\ ProberAtRest

\* _check_url is called on a thread of the pool.  The threads are started in
\* order; without a rate limit they share nothing, and one is run.
StartFetch(w) ==
    /\ fetches[w].pc = "idle"
    /\ IF w = 1 THEN TRUE
       ELSE rate_limit # NoRateLimit /\ fetches[w - 1].pc # "idle"
    /\ fetches' = [fetches EXCEPT ![w].pc = "throttle"]
    /\ UNCHANGED <<config, prober, normalizer, locals, futures, done, pc, result, next_id, history,
                   fetch_config, _rate_lock, _last_request_time, monotonic, gate_log>>

\* _throttle: can the thread take self._rate_lock?
LockFreeAlways(lock) == TRUE

LockFree(lock) == lock = Unlocked

\* _throttle, lines 344-346: return at once without a rate limit, else take
\* the lock.
Throttle(w) ==
    /\ fetches[w].pc = "throttle"
    /\ IF rate_limit = NoRateLimit
       THEN /\ fetches' = [fetches EXCEPT ![w].pc = "get", ![w].passes = @ + 1]
            /\ UNCHANGED _rate_lock
       ELSE /\ LockFree(_rate_lock)
            /\ _rate_lock' = w
            /\ fetches' = [fetches EXCEPT ![w].pc = "locked"]
    /\ UNCHANGED <<config, prober, normalizer, locals, futures, done, pc, result, next_id, history,
                   fetch_config, _last_request_time, monotonic, gate_log>>

\* _throttle, line 348
WaitTime(now) == _min_interval - (now - _last_request_time)

\* _throttle, lines 347-350: read the clock, sleep for the rest of the interval
Measure(w) ==
    /\ fetches[w].pc = "locked"
    /\ LET wait_time == WaitTime(monotonic)
       IN  fetches' = [fetches EXCEPT ![w].pc = "stamp",
                           ![w].wake = IF wait_time > 0 THEN monotonic + wait_time
                                       ELSE monotonic]
    /\ UNCHANGED <<config, prober, normalizer, locals, futures, done, pc, result, next_id, history,
                   fetch_config, _rate_lock, _last_request_time, monotonic, gate_log>>

\* _throttle, line 351: after the sleep, stamp the clock and leave the lock
Stamp(w) ==
    /\ fetches[w].pc = "stamp"
    /\ monotonic >= fetches[w].wake
    /\ _last_request_time' = monotonic
    /\ gate_log' = Append(gate_log, monotonic)
    /\ _rate_lock' = Unlocked
    /\ fetches' = [fetches EXCEPT ![w].pc = "get", ![w].wake = 0,
                                  ![w].passes = @ + 1]
    /\ UNCHANGED <<config, prober, normalizer, locals, futures, done, pc, result, next_id, history,
                   fetch_config, monotonic>>

\* _sleep_backoff: delay = self.backoff_factor * (2**attempt)
BackoffDelayFlat(attempt) == backoff_factor

BackoffDelay(attempt) == backoff_factor * (2 ^ attempt)

\* _request_with_retries, lines 367-368: a transport error is retried unless
\* attempt >= max_retries
RetryError(attempt) == ~(attempt >= max_retries)

\* _request_with_retries, line 373
RetryResponseAnyFailure(status_code, attempt) ==
    status_code >= 400 /\ attempt < max_retries

RetryResponse(status_code, attempt) ==
    status_code \in retry_statuses /\ attempt < max_retries

Retry(outcome, attempt) ==
    IF outcome.kind = "RequestException"
    THEN RetryError(attempt)
    ELSE RetryResponse(outcome.status_code, attempt)

\* _request_with_retries, lines 369-371 and 374-376: after a failed attempt
\* the thread sleeps the backoff, if any, and goes round the loop to _throttle
AfterFailureSkipsGate(delay) == IF delay > 0 THEN "backoff" ELSE "get"

AfterFailure(delay) == IF delay > 0 THEN "backoff" ELSE "throttle"

\* _request_with_retries, lines 362-377: one session.get and what follows it;
\* when it is the last, _check_url builds the report.
Request(w) ==
    /\ fetches[w].pc = "get"
    /\ \E outcome \in AttemptOutcomes :
        LET f == fetches[w]
            log == Append(f.log, [outcome |-> outcome, slept |-> f.delay])
            delay == BackoffDelay(f.attempt)
        IN  IF Retry(outcome, f.attempt)
            THEN fetches' = [fetches EXCEPT ![w] =
                     [f EXCEPT !.pc = AfterFailure(delay),
                               !.attempt = @ + 1,
                               !.delay = IF delay > 0 THEN delay ELSE 0,
                               !.wake = IF delay > 0 THEN monotonic + delay ELSE 0,
                               !.log = log]]
            ELSE fetches' = [fetches EXCEPT ![w] =
                     [f EXCEPT !.pc = "done", !.delay = 0, !.log = log,
                               !.reports = Append(@,
                                   FutureResult(FetchUrl(w), outcome).report)]]
    /\ UNCHANGED <<config, prober, normalizer, locals, futures, done, pc, result, next_id, history,
                   fetch_config, _rate_lock, _last_request_time, monotonic, gate_log>>

\* _sleep_backoff, line 356: the sleep is over
Wake(w) ==
    /\ fetches[w].pc = "backoff"
    /\ monotonic >= fetches[w].wake
    /\ fetches' = [fetches EXCEPT ![w].pc = "throttle", ![w].wake = 0]
    /\ UNCHANGED <<config, prober, normalizer, locals, futures, done, pc, result, next_id, history,
                   fetch_config, _rate_lock, _last_request_time, monotonic, gate_log>>

\* A thread sleeps (time.sleep) until its wake time or later.
Sleeping(w) ==
    /\ fetches[w].pc \in {"stamp", "backoff"}
    /\ fetches[w].wake > monotonic

\* The clock advances.
Tick ==
    /\ monotonic < MaxClock \/ \E w \in FetchWorkers : Sleeping(w)
    /\ monotonic' = monotonic + 1
    /\ UNCHANGED <<config, prober, normalizer, locals, futures, done, pc, result, next_id, history,
                   fetch_config, _rate_lock, _last_request_time, fetches, gate_log>>

NextFetch ==
    \/ \E w \in FetchWorkers : StartFetch(w)
    \/ \E w \in FetchWorkers : Throttle(w)
    \/ \E w \in FetchWorkers : Measure(w)
    \/ \E w \in FetchWorkers : Stamp(w)
    \/ \E w \in FetchWorkers : Request(w)
    \/ \E w \in FetchWorkers : Wake(w)
    \/ Tick

SpecFetch == InitFetch /\ [][NextFetch]_vars

(***************************************************************************)
(* _check_url as a function of the outcome of the fetch.                   *)
(***************************************************************************)
\* The status codes of final responses: the ends of each class.
ProbeCodes == {200, 204, 299, 300, 304, 399, 400, 404, 499, 500, 503, 599}

\* The outcomes _check_url is given: a response, with or without a header,
\* links in its body, a redirect chain behind it, or a transport error.
ProbeOutcomes ==
    {Response(code, ctype, links, chain, IF chain = <<>> THEN NoUrl ELSE PageB, FALSE) :
        code \in ProbeCodes, ctype \in ContentTypes \cup {NoContentType},
        links \in {{}, {PageA}}, chain \in {<<>>, <<301>>}}
    \cup {Failure("RequestException", "timeout")}

InitCheckUrl ==
    /\ arg_max_workers = MaxWorkersArg
    /\ max_workers = InitMaxWorkers(arg_max_workers)
    /\ max_requests = MaxRequestsArg
    /\ max_pages = MaxPagesArg
    /\ max_depth = MaxDepthArg
    /\ include_external = FALSE
    /\ check_orphans = TRUE
    /\ AnySite
    /\ RunLocals
    /\ FetcherDefaults
    /\ \E outcome \in ProbeOutcomes : probe = <<outcome>>
    /\ checked = <<>>
    /\ NormalizerAtRest

\* _check_url(start_url) returns.
CallCheckUrl ==
    /\ probe # <<>>
    /\ checked = <<>>
    /\ checked' = <<CheckUrl(start_url, probe[1])>>
    /\ UNCHANGED <<config, locals, futures, done, pc, result, next_id, history,
                   fetcher, probe, normalizer>>

NextCheckUrl == CallCheckUrl

SpecCheckUrl == InitCheckUrl /\ [][NextCheckUrl]_vars

(***************************************************************************)
(* _normalize_link.  A URL of the start site is written as the characters  *)
(* that follow "https://example.test"; a link is such a URL, or a          *)
(* reference that urljoin resolves against the start URL to the same       *)
(* characters.                                                             *)
(***************************************************************************)
\* The characters of a link: a letter, and the three delimiters.
Chars == {"a", "/", "?", "#"}

RECURSIVE Texts(_)
\* The character sequences of length n.
Texts(n) ==
    IF n = 0 THEN {<<>>}
    ELSE {Append(t, c) : t \in Texts(n - 1), c \in Chars}

\* A reference as written in a page, or an absolute URL of the start site.
Reference(text) == [absolute |-> FALSE, text |-> text]

Absolute(text) == [absolute |-> TRUE, text |-> text]

\* The links tried: references that start with a path, a query or a
\* fragment (not with "//", which names a host), and the empty reference.
RawLinks ==
    {Reference(t) : t \in {x \in UNION {Texts(n) : n \in 0..MaxLinkLen} :
        /\ x # <<>> => Head(x) \in {"/", "?", "#"}
        /\ Len(x) >= 2 => ~(x[1] = "/" /\ x[2] = "/")}}

\* Index of the first c in s, or 0.
Find(s, c) ==
    IF \E i \in 1..Len(s) : s[i] = c
    THEN CHOOSE i \in 1..Len(s) : s[i] = c /\ \A j \in 1..(i - 1) : s[j] # c
    ELSE 0

\* urlparse: path, query, fragment of the characters after the host
UrlParse(text) ==
    LET h == Find(text, "#")
        nofrag == IF h = 0 THEN text ELSE SubSeq(text, 1, h - 1)
        fragment == IF h = 0 THEN <<>> ELSE SubSeq(text, h + 1, Len(text))
        q == Find(nofrag, "?")
    IN  [path |-> IF q = 0 THEN nofrag ELSE SubSeq(nofrag, 1, q - 1),
         query |-> IF q = 0 THEN <<>> ELSE SubSeq(nofrag, q + 1, Len(nofrag)),
         fragment |-> fragment]

\* urlunparse: an empty query or fragment is written without its delimiter
UrlUnparse(parsed) ==
    parsed.path
    \o (IF parsed.query # <<>> THEN <<"?">> \o parsed.query ELSE <<>>)
    \o (IF parsed.fragment # <<>> THEN <<"#">> \o parsed.fragment ELSE <<>>)

RECURSIVE RStrip(_)
\* str.rstrip("/")
RStrip(s) ==
    IF s # <<>> /\ s[Len(s)] = "/" THEN RStrip(SubSeq(s, 1, Len(s) - 1)) ELSE s

\* _normalize_link returned None / a URL
Rejected == [ok |-> FALSE, text |-> <<>>]

Accepted(text) == [ok |-> TRUE, text |-> text]

\* _normalize_link(start_url, link)
NormalizeLink(link) ==
    IF ~link.absolute /\ (link.text = <<>> \/ Head(link.text) = "#")
    THEN Rejected
    ELSE LET parsed == UrlParse(link.text)
             cleaned == [parsed EXCEPT !.fragment = <<>>]
         IN  Accepted(RStrip(UrlUnparse(cleaned)))

InitNormalize ==
    /\ arg_max_workers = MaxWorkersArg
    /\ max_workers = InitMaxWorkers(arg_max_workers)
    /\ max_requests = MaxRequestsArg
    /\ max_pages = MaxPagesArg
    /\ max_depth = MaxDepthArg
    /\ include_external = FALSE
    /\ check_orphans = TRUE
    /\ AnySite
    /\ RunLocals
    /\ FetcherDefaults
    /\ probe = <<>>
    /\ checked = <<>>
    /\ \E link \in RawLinks : raw_link = <<link>>
    /\ normalized_once = <<>>
    /\ normalized_twice = <<>>

\* _normalize_link(start_url, link) returns.
Normalize ==
    /\ raw_link # <<>>
    /\ normalized_once = <<>>
    /\ normalized_once' = <<NormalizeLink(raw_link[1])>>
    /\ UNCHANGED <<config, locals, futures, done, pc, result, next_id, history,
                   fetcher, prober, raw_link, normalized_twice>>

\* _normalize_link is called on the URL it returned.
NormalizeAgain ==
    /\ normalized_once # <<>>
    /\ normalized_once[1].ok
    /\ normalized_twice = <<>>
    /\ normalized_twice' = <<NormalizeLink(Absolute(normalized_once[1].text))>>
    /\ UNCHANGED <<config, locals, futures, done, pc, result, next_id, history,
                   fetcher, prober, raw_link, normalized_once>>

NextNormalize == Normalize \/ NormalizeAgain

SpecNormalize == InitNormalize /\ [][NextNormalize]_vars

(***************************************************************************)
(* Properties of run().                                                    *)
(***************************************************************************)
ReportIndexes(rs, url) == {j \in 1..Len(rs) : rs[j].url = url}

Entries == Range(queue) \cup {Entry(futures[i].url, futures[i].depth) : i \in 1..Len(futures)}

IsExpandable(report) ==
    /\ report.content_type = "text/html"
    /\ report.status_code # NoStatusCode
    /\ report.status_code < 400

\* C1: each URL is submitted to a worker at most once and is the url of at
\* most one report, during the run and in the result.
C1_FetchedAtMostOnce ==
    \A u \in Urls :
        /\ dispatch_count[u] <= 1
        /\ Cardinality(ReportIndexes(reports, u)) <= 1
        /\ Cardinality(ReportIndexes(result.reports, u)) <= 1

\* A page that two fetched pages link to and that was fetched once.
C1_Witness ==
    /\ pc = "done"
    /\ \E u \in Urls :
        /\ Cardinality(referrer_map[u]) >= 2
        /\ dispatch_count[u] = 1
        /\ Cardinality(ReportIndexes(result.reports, u)) = 1

\* C2: with max_requests >= 0, the completed fetches plus the fetches in
\* flight never exceed max_requests, and the result holds at most
\* max_requests reports.
C2_RequestCeiling ==
    max_requests >= 0 =>
        /\ completed_requests + Len(futures) <= max_requests
        /\ Len(reports) <= max_requests
        /\ Len(result.reports) <= max_requests

\* The run ended on the ceiling with URLs left in the frontier.
C2_Witness ==
    /\ pc = "done"
    /\ max_requests >= 1
    /\ Len(result.reports) = max_requests
    /\ queue # <<>>

C4_WorkerCeiling ==
    /\ Len(futures) <= (IF arg_max_workers < 1 THEN 1 ELSE arg_max_workers)
    /\ Cardinality(in_progress) <= (IF arg_max_workers < 1 THEN 1 ELSE arg_max_workers)

\* max_workers was given as 0 and one fetch is in flight while the frontier
\* holds another URL.
C4_Witness ==
    /\ arg_max_workers = 0
    /\ pc = "wait"
    /\ Len(futures) = 1
    /\ queue # <<>>

\* C5: the start URL is admitted at depth 0; any other URL is admitted at
\* depth d + 1 by an expanded page that links to it and was fetched at
\* depth d < max_depth; no URL submitted or reported is deeper than
\* max(0, max_depth).
C5_AdmittedBy(url, depth) ==
    \/ url = start_url /\ depth = 0
    \/ /\ url # start_url
       /\ depth >= 1
       /\ depth <= max_depth
       /\ \E p \in referrer_map[url] :
           /\ p \in Range(expanded)
           /\ p \in DOMAIN fetch_depth
           /\ fetch_depth[p] = depth - 1
           /\ fetch_depth[p] < max_depth

C5_DepthCeiling ==
    /\ \A e \in Entries :
        /\ C5_AdmittedBy(e.url, e.depth)
        /\ e.depth <= Max(0, max_depth)
    /\ \A u \in Urls :
        (dispatch_count[u] > 0 \/ ReportIndexes(reports, u) # {}) =>
            /\ u \in DOMAIN fetch_depth
            /\ C5_AdmittedBy(u, fetch_depth[u])
            /\ fetch_depth[u] <= Max(0, max_depth)

\* A page fetched at depth max_depth >= 1 had a link to a page not yet
\* known, and the link was discarded.
C5_Witness ==
    /\ pc = "done"
    /\ max_depth >= 1
    /\ pages_crawled < max_pages
    /\ \E j \in 1..Len(reports) :
        /\ reports[j].url \in DOMAIN fetch_depth
        /\ fetch_depth[reports[j].url] = max_depth
        /\ IsExpandable(reports[j])
        /\ \E u \in Range(reports[j].links_found) :
            /\ IsSameDomain(u)
            /\ u \notin visited
            /\ referrer_map[u] = {}

\* C6: with include_external false, a cross-origin URL never gets a
\* referrer, is never enqueued, never submitted and never reported.
C6_NoExternal ==
    ~include_external =>
        \A u \in Urls :
            ~IsSameDomain(u) =>
                /\ referrer_map[u] = {}
                /\ u \notin queued_urls
                /\ u \notin in_progress
                /\ u \notin visited
                /\ dispatch_count[u] = 0
                /\ \A e \in Entries : e.url # u
                /\ ReportIndexes(reports, u) = {}
                /\ ReportIndexes(result.reports, u) = {}

\* An expanded page linked to a cross-origin URL while include_external was
\* false.
C6_Witness ==
    /\ pc = "done"
    /\ ~include_external
    /\ \E j \in 1..Len(reports) :
        /\ reports[j].url \in Range(expanded)
        /\ External \in Range(reports[j].links_found)

\* The expanded pages whose report lists u among its links.
LinkingPages(u) ==
    {p \in Range(expanded) :
        \E j \in ReportIndexes(reports, p) : u \in Range(reports[j].links_found)}

\* C7: in the result, the referrers of the report of a URL other than the
\* start URL are all the expanded pages that link to it, whatever the order
\* of the fetches.
C7_AllReferrers ==
    pc = "done" =>
        \A j \in 1..Len(result.reports) :
            result.reports[j].url # start_url =>
                Range(result.reports[j].referrers) = LinkingPages(result.reports[j].url)

\* C8: every page in the referrer map entry of u, and every page in the
\* referrers of the report of u, has a report that is an HTML page whose
\* links_found contains u.
C8_LinksTo(p, u) ==
    \E j \in 1..Len(reports) :
        /\ reports[j].url = p
        /\ reports[j].content_type = "text/html"
        /\ u \in Range(reports[j].links_found)

C8_ReferrersAreLinkingPages ==
    /\ \A u \in Urls : \A p \in referrer_map[u] : C8_LinksTo(p, u)
    /\ \A j \in 1..Len(reports) :
        \A p \in Range(reports[j].referrers) : C8_LinksTo(p, reports[j].url)
    /\ \A j \in 1..Len(result.reports) :
        \A p \in Range(result.reports[j].referrers) :
            C8_LinksTo(p, result.reports[j].url)

\* A report with two referrers.
C8_Witness ==
    /\ pc = "done"
    /\ \E j \in 1..Len(result.reports) : Len(result.reports[j].referrers) >= 2

\* C9: every report of a URL other than the start URL has a referrer.
C9_HasReferrer ==
    /\ \A j \in 1..Len(reports) :
        reports[j].url # start_url => reports[j].referrers # <<>>
    /\ \A j \in 1..Len(result.reports) :
        result.reports[j].url # start_url => result.reports[j].referrers # <<>>

\* A page that the sitemap declares was reached by a link and reported.
C9_Witness ==
    /\ pc = "done"
    /\ \E j \in 1..Len(result.reports) :
        /\ result.reports[j].url # start_url
        /\ result.reports[j].url \in sitemap_candidates
        /\ result.reports[j].referrers = <<start_url>>

\* C10: the report of the start URL has no referrers, during the run and
\* in the result.
C10_StartHasNoReferrers ==
    /\ \A j \in 1..Len(reports) :
        reports[j].url = start_url => reports[j].referrers = <<>>
    /\ \A j \in 1..Len(result.reports) :
        result.reports[j].url = start_url => result.reports[j].referrers = <<>>

\* The start page links to itself and a page fetched later links back to it.
C10_Witness ==
    /\ pc = "done"
    /\ start_url \in referrer_map[start_url]
    /\ Cardinality(referrer_map[start_url]) >= 2
    /\ \E j \in 1..Len(result.reports) :
        /\ result.reports[j].url = start_url
        /\ result.reports[j].referrers = <<>>

IsSortedUrls(s) == \A i, j \in 1..Len(s) : i < j => UrlRank(s[i]) < UrlRank(s[j])

\* C11: in the result, unused_links and sitemap_only_links are each sorted,
\* hold only URLs of the start URL's host, and share no URL.
C11_UnusedListsWellFormed ==
    /\ IsSortedUrls(result.unused_links)
    /\ IsSortedUrls(result.sitemap_only_links)
    /\ \A u \in Range(result.unused_links) \cup Range(result.sitemap_only_links) :
        u.netloc = start_url.netloc
    /\ Range(result.unused_links) \cap Range(result.sitemap_only_links) = {}

\* The sitemap declared a cross-origin URL and two same-origin URLs that
\* were not fetched.
C11_Witness ==
    /\ pc = "done"
    /\ \E i \in 1..Len(sitemap_fetch) :
        sitemap_fetch[i].ok /\ External \in sitemap_fetch[i].locs
    /\ Len(result.sitemap_only_links) >= 2

\* The URLs that the sitemap fetched by the run declares.
SitemapDeclared ==
    UNION {sitemap_fetch[i].locs : i \in {j \in 1..Len(sitemap_fetch) : sitemap_fetch[j].ok}}

\* C12: with check_orphans, sitemap_only_links is exactly the same-origin
\* URLs that the sitemap declares and that have no report.
C12_SitemapOnlyExact ==
    (pc = "done" /\ check_orphans) =>
        Range(result.sitemap_only_links) =
            {u \in SitemapDeclared :
                /\ u.netloc = start_url.netloc
                /\ ReportIndexes(result.reports, u) = {}}

\* A declared URL was fetched, so it is not listed; another was linked from
\* an expanded page but left unfetched by a ceiling, so it is listed.
C12_Witness ==
    /\ pc = "done"
    /\ check_orphans
    /\ SitemapDeclared # {}
    /\ \/ /\ ReportIndexes(result.reports, PageA) # {}
          /\ result.sitemap_only_links = <<Orphan>>
       \/ /\ referrer_map[PageA] # {}
          /\ ReportIndexes(result.reports, PageA) = {}
          /\ result.sitemap_only_links = <<PageA, Orphan>>

\* A URL that the crawl itself came to.
C13_FoundByCrawl(u) == u = start_url \/ LinkingPages(u) # {}

\* C13: the sitemap never feeds the frontier: every frontier entry, worker and
\* report is for the start URL or for a link found on an expanded page. The
\* sitemap is requested at most once, before the first dispatch; the request
\* leaves no report and is not counted in completed_requests.
C13_SitemapIsNotASeed ==
    /\ \A e \in Entries : C13_FoundByCrawl(e.url)
    /\ \A j \in 1..Len(reports) : C13_FoundByCrawl(reports[j].url)
    /\ \A j \in 1..Len(result.reports) : C13_FoundByCrawl(result.reports[j].url)
    /\ Len(sitemap_fetch) <= 1
    /\ (Len(sitemap_fetch) = 1) <=> (check_orphans /\ pc # "sitemap")
    /\ pc = "sitemap" => (next_id = 0 /\ \A u \in Urls : dispatch_count[u] = 0)
    /\ next_id = 0 => (completed_requests = 0 /\ reports = <<>>)
    /\ completed_requests = Len(reports)
    /\ completed_requests + Len(futures) = next_id
    /\ \A j \in 1..Len(reports) : reports[j].url \in Linked
    /\ \A j \in 1..Len(result.reports) : result.reports[j].url \in Linked

\* The sitemap was read and declared a page that no page links to; the run
\* used up max_requests on crawled pages and never fetched that page.
C13_Witness ==
    /\ pc = "done"
    /\ Orphan \in sitemap_candidates
    /\ dispatch_count[Orphan] = 0
    /\ max_requests >= 1
    /\ completed_requests = max_requests
    /\ Len(result.reports) = max_requests

\* The number of reports of the result that have the given status.
WithStatus(status) ==
    Cardinality({j \in 1..Len(result.reports) : result.reports[j].status = status})

\* C14 as stated: the summary carries a count for each of ok, broken,
\* server-error, redirect, error and unknown, each the number of reports with
\* that status, total is the number of reports and the six counts sum to it.
C14_CountsWithUnknown ==
    pc = "done" =>
        /\ result.summary["total"] = Len(result.reports)
        /\ {"ok", "broken", "server-error", "redirect", "error", "unknown"}
                \subseteq DOMAIN result.summary
        /\ \A k \in {"ok", "broken", "server-error", "redirect", "error", "unknown"} :
            k \in DOMAIN result.summary => result.summary[k] = WithStatus(k)

\* C14 (amended): the summary has no count for unknown; total is the number
\* of reports, each of ok, broken, server-error, redirect and error is the
\* number of reports with that status, and these five sum to total.
C14_CountsSumToTotal ==
    /\ "unknown" \notin DOMAIN result.summary
    /\ result.summary["total"] = Len(result.reports)
    /\ \A k \in {"ok", "broken", "server-error", "redirect", "error"} :
        result.summary[k] = WithStatus(k)
    /\ result.summary["ok"] + result.summary["broken"] + result.summary["server-error"]
        + result.summary["redirect"] + result.summary["error"] = result.summary["total"]

\* A result with an ok report, a broken report and an error report.
C14_Witness ==
    /\ pc = "done"
    /\ result.summary["ok"] >= 1
    /\ result.summary["broken"] >= 1
    /\ result.summary["error"] >= 1

ReportStatuses == {"ok", "redirect", "broken", "server-error", "error"}

\* C15: no report, during the run or in the result, has status unknown:
\* every completed fetch is classified ok, redirect, broken, server-error or
\* error, also when it ends in a transport error or a worker failure.
C15_NoUnknownStatus ==
    /\ \A j \in 1..Len(reports) : reports[j].status \in ReportStatuses
    /\ \A j \in 1..Len(result.reports) : result.reports[j].status \in ReportStatuses

\* A result with the report of a worker failure and of a transport error.
C15_Witness ==
    /\ pc = "done"
    /\ \E j, k \in 1..Len(result.reports) :
        /\ result.reports[j].status = "error"
        /\ result.reports[j].issues = <<Issue("crash", <<>>)>>
        /\ result.reports[k].status = "error"
        /\ result.reports[k].issues = <<Issue("timeout", <<>>)>>

(***************************************************************************)
(* Properties of the HTTP fetcher.                                         *)
(***************************************************************************)
\* The n-th attempt of a thread (the first is attempt 0) got a response.
IsResponse(w, n) == fetches[w].log[n + 1].outcome.kind = "response"

StatusOf(w, n) == fetches[w].log[n + 1].outcome.status_code

Attempts(w) == Len(fetches[w].log)

\* The n-th attempt returned a status of self.retry_statuses.
RetryableStatus(w, n) == IsResponse(w, n) /\ StatusOf(w, n) \in retry_statuses

\* The fetch went on after its n-th attempt.
Retried(w, n) == ~(n + 1 = Attempts(w) /\ fetches[w].pc = "done")

\* C16: a fetch whose first k <= max_retries attempts return a retryable
\* status and whose next attempt returns a status that is not retryable makes
\* exactly k + 1 attempts and yields exactly one report, with that last status.
C16_RetryLaw ==
    \A w \in FetchWorkers : \A k \in 0..max_retries :
        ( /\ Attempts(w) > k
          /\ \A n \in 0..(k - 1) : RetryableStatus(w, n)
          /\ IsResponse(w, k) /\ StatusOf(w, k) \notin retry_statuses )
        => /\ Attempts(w) = k + 1
           /\ fetches[w].pc = "done"
           /\ Len(fetches[w].reports) = 1
           /\ fetches[w].reports[1].status_code = StatusOf(w, k)
           /\ fetches[w].reports[1].status = Classify(StatusOf(w, k))

\* Two retryable answers, then an answer that is not: three attempts.
C16_Witness ==
    \E w \in FetchWorkers :
        /\ fetches[w].pc = "done"
        /\ max_retries = 2
        /\ Attempts(w) = 3
        /\ RetryableStatus(w, 0) /\ RetryableStatus(w, 1)
        /\ IsResponse(w, 2) /\ StatusOf(w, 2) = 404
        /\ fetches[w].reports[1].status = "broken"

\* The retry set as configured: the retry_statuses argument, or the default
\* set when there is no argument.
ConfiguredRetryStatuses ==
    IF arg_retry_statuses.given THEN arg_retry_statuses.codes ELSE DefaultRetryStatuses

\* C17: a fetch makes at most max_retries + 1 attempts; an attempt is
\* retried iff it ended in a transport error or in a status of the configured
\* retry set (whatever set is configured, the empty set too) and fewer than
\* max_retries retries were made; after the last retry the outcome is
\* returned as it is.
C17_RetriedIffConfigured ==
    \A w \in FetchWorkers :
        /\ Attempts(w) <= max_retries + 1
        /\ \A n \in 0..(Attempts(w) - 1) :
            Retried(w, n) <=>
                /\ ~IsResponse(w, n) \/ StatusOf(w, n) \in ConfiguredRetryStatuses
                /\ n < max_retries
        /\ (fetches[w].pc = "done" /\ Attempts(w) = max_retries + 1) =>
            /\ Len(fetches[w].reports) = 1
            /\ IF IsResponse(w, max_retries)
               THEN fetches[w].reports[1].status_code = StatusOf(w, max_retries)
               ELSE fetches[w].reports[1].status = "error"

\* C18 as stated: no delay is slept before attempt 0, and the delay slept
\* before attempt n >= 1 is backoff_factor * 2^n.
C18_DelayTwoToTheN ==
    \A w \in FetchWorkers : \A n \in 0..(Attempts(w) - 1) :
        fetches[w].log[n + 1].slept = IF n = 0 THEN 0 ELSE backoff_factor * (2 ^ n)

\* C18 (amended): no delay is slept before attempt 0, and the delay slept
\* before attempt n >= 1 is backoff_factor * 2^(n-1); a sleeping thread wakes
\* no sooner than that delay after the failed attempt.
C18_DelayTwoToTheNMinusOne ==
    \A w \in FetchWorkers :
        /\ \A n \in 0..(Attempts(w) - 1) :
            fetches[w].log[n + 1].slept =
                IF n = 0 THEN 0 ELSE backoff_factor * (2 ^ (n - 1))
        /\ fetches[w].pc = "backoff" =>
            /\ fetches[w].delay = backoff_factor * (2 ^ (fetches[w].attempt - 1))
            /\ fetches[w].wake - fetches[w].delay <= monotonic

\* A fetch of three attempts that slept one tick, then two.
C18_Witness ==
    \E w \in FetchWorkers :
        /\ backoff_factor = 1
        /\ Attempts(w) = 3
        /\ fetches[w].log[2].slept = 1
        /\ fetches[w].log[3].slept = 2

\* C19: with a rate limit R > 0, any two passages of the gate are at least
\* 1/R apart, whatever the threads, and the timestamp is read and written
\* only by the thread that holds the lock; with no rate limit, or one that
\* is zero or less, the gate is never entered and delays nothing.
C19_RateLimitLaw ==
    /\ \A arg \in RateLimitArgs :
        (~arg.given \/ arg.value <= 0) <=> InitRateLimit(arg) = NoRateLimit
    /\ rate_limit # NoRateLimit =>
        /\ rate_limit > 0
        /\ _min_interval * rate_limit = Second
        /\ \A i, j \in 1..Len(gate_log) :
            i < j => gate_log[j] - gate_log[i] >= _min_interval
        /\ \A w \in FetchWorkers :
            fetches[w].pc \in {"locked", "stamp"} <=> _rate_lock = w
    /\ rate_limit = NoRateLimit =>
        /\ _rate_lock = Unlocked
        /\ gate_log = <<>>
        /\ _last_request_time = 0
        /\ \A w \in FetchWorkers : fetches[w].pc \notin {"locked", "stamp"}

\* Both threads retried under a rate limit: four passages of the gate, the
\* last one held back by the gate.
C19_Witness ==
    /\ rate_limit # NoRateLimit
    /\ Len(gate_log) = 4
    /\ \A w \in FetchWorkers : Attempts(w) = 2
    /\ gate_log[4] - gate_log[3] = _min_interval
    /\ gate_log[4] > MaxClock

(***************************************************************************)
(* Properties of _check_url.                                               *)
(***************************************************************************)
HasIssue(report, label) ==
    \E i \in 1..Len(report.issues) : report.issues[i].label = label

\* C20: the status of a report is a function of the final status code: 5xx
\* gives server-error with the issue Server error, 4xx gives broken with the
\* issue Client error, 3xx gives redirect, 2xx gives ok; a transport error
\* gives error, no status code, and its message as an issue; links are
\* extracted only from an HTML response with a status below 400.
C20_StatusByCode ==
    checked # <<>> =>
        LET outcome == probe[1]
            report == checked[1].report
            code == outcome.status_code
        IN  /\ ~checked[1].raised
            /\ outcome.kind = "response" =>
                /\ report.status_code = code
                /\ (500 <= code /\ code <= 599) =>
                    report.status = "server-error" /\ HasIssue(report, "Server error")
                /\ (400 <= code /\ code <= 499) =>
                    report.status = "broken" /\ HasIssue(report, "Client error")
                /\ (300 <= code /\ code <= 399) => report.status = "redirect"
                /\ (200 <= code /\ code <= 299) => report.status = "ok"
            /\ outcome.kind = "RequestException" =>
                /\ report.status = "error"
                /\ report.status_code = NoStatusCode
                /\ HasIssue(report, outcome.message)
            /\ (report.links_found # <<>> \/ checked[1].discovered_links # {}
                    \/ checked[1].is_html) =>
                /\ outcome.kind = "response"
                /\ outcome.content_type \in {"text/html", "Text/HTML; charset=UTF-8"}
                /\ code < 400

\* A redirected HTML page with status 399 whose link was extracted.
C20_Witness ==
    /\ checked # <<>>
    /\ probe[1].status_code = 399
    /\ checked[1].report.status = "redirect"
    /\ checked[1].report.links_found = <<PageA>>
    /\ checked[1].report.content_type = "Text/HTML; charset=UTF-8"

(***************************************************************************)
(* Further properties of run().                                            *)
(***************************************************************************)
\* The messages of the failures that the servers and workers of the model
\* produce.
FailureMessages == {"timeout", "crash"}

\* C22: a fetch that ends in a transport error or in a failure of its
\* worker leaves exactly one report, with status error, no status code and
\* the message as its issue; it is counted in completed_requests and its page
\* is not expanded; run() goes on and leaves its loop only with nothing left
\* to fetch or at the request ceiling.
C22_FailureBecomesReport ==
    /\ \A j \in 1..Len(reports) :
        (reports[j].status = "error" \/ reports[j].status_code = NoStatusCode) =>
            /\ reports[j].status = "error"
            /\ reports[j].status_code = NoStatusCode
            /\ \E msg \in FailureMessages : reports[j].issues = <<Issue(msg, <<>>)>>
            /\ reports[j].links_found = <<>>
            /\ reports[j].url \notin Range(expanded)
            /\ ReportIndexes(reports, reports[j].url) = {j}
    /\ completed_requests = Len(reports)
    /\ \A u \in Urls : dispatch_count[u] > 0 =>
        (ReportIndexes(reports, u) # {} \/ \E i \in 1..Len(futures) : futures[i].url = u)
    /\ pc \in {"finish", "done"} =>
        (queue = <<>> /\ futures = <<>>) \/ completed_requests >= max_requests
    /\ pc = "done" => result.reports = reports

\* The start page was expanded, one of its links failed with a transport
\* error, its worker failed on the other, and both were reported.
C22_Witness ==
    /\ pc = "done"
    /\ Len(result.reports) = 3
    /\ result.reports[1].status = "ok"
    /\ result.reports[2].issues = <<Issue("timeout", <<>>)>>
    /\ result.reports[3].issues = <<Issue("crash", <<>>)>>
    /\ result.summary["error"] = 2

\* C26: with check_orphans, summary.unused is the length of unused_links
\* plus the length of sitemap_only_links; without it the sitemap is not
\* requested, both lists are empty and summary.unused is 0.
C26_UnusedCount ==
    /\ check_orphans =>
        result.summary["unused"] =
            Len(result.unused_links) + Len(result.sitemap_only_links)
    /\ ~check_orphans =>
        /\ sitemap_fetch = <<>>
        /\ sitemap_candidates = {}
        /\ result.unused_links = <<>>
        /\ result.sitemap_only_links = <<>>
        /\ result.summary["unused"] = 0

\* A result with two sitemap-only URLs.
C26_Witness ==
    /\ pc = "done"
    /\ check_orphans
    /\ result.summary["unused"] = 2
    /\ Len(result.reports) >= 2

\* C27: at the request ceiling no URL is dispatched, and the loop is left
\* with no fetch in flight: every URL that was dispatched has a report in
\* the reports of run() and in the result.
C27_NoFetchDropped ==
    /\ completed_requests >= max_requests => pc \in {"sitemap", "finish", "done"}
    /\ completed_requests + Len(futures) = next_id
    /\ pc \in {"finish", "done"} =>
        /\ futures = <<>>
        /\ in_progress = {}
        /\ \A u \in Urls : dispatch_count[u] > 0 => ReportIndexes(reports, u) # {}
    /\ pc = "done" =>
        /\ Len(result.reports) = next_id
        /\ \A u \in Urls :
            dispatch_count[u] > 0 => ReportIndexes(result.reports, u) # {}

\* The ceiling ended a run of two workers with the frontier not empty.
C27_Witness ==
    /\ pc = "done"
    /\ max_workers = 2
    /\ completed_requests = max_requests
    /\ max_requests = MaxRequestsArg
    /\ queue # <<>>
    /\ Len(result.reports) = max_requests

QueueUrls == {queue[i].url : i \in 1..Len(queue)}

\* C30: visited, in_progress and queued_urls are pairwise disjoint,
\* queued_urls is the set of the URLs in the frontier, the frontier holds no
\* URL twice, and so no URL of the frontier is in visited or in_progress:
\* the skip on dequeue never fires.
C30_DisjointSets ==
    /\ visited \cap in_progress = {}
    /\ visited \cap queued_urls = {}
    /\ in_progress \cap queued_urls = {}
    /\ queued_urls = QueueUrls
    /\ \A i, j \in 1..Len(queue) : queue[i].url = queue[j].url => i = j
    /\ \A i \in 1..Len(queue) : ~AlreadySeen(queue[i].url)
    /\ in_progress = {futures[i].url : i \in 1..Len(futures)}
    /\ visited = {reports[j].url : j \in 1..Len(reports)}

\* A URL waits in the frontier while another is fetched and a third has
\* been reported.
C30_Witness ==
    /\ Len(queue) = 1
    /\ Cardinality(in_progress) = 1
    /\ Cardinality(visited) >= 1
    /\ \E u \in queued_urls : start_url \in referrer_map[u]

\* C25 as stated: the HTTP requests of a run, the sitemap request and at
\* least one attempt for every fetch that got a response, are no more than
\* max_requests.
C25_AllRequestsUnderCeiling ==
    (pc = "done" /\ max_requests >= 1) =>
        Len(sitemap_fetch)
            + Cardinality({j \in 1..Len(reports) : reports[j].status_code # NoStatusCode})
        <= max_requests

\* C21: with every fetch ending, run() ends: it leaves its loop with the
\* frontier empty and no fetch in flight, or with completed_requests at
\* max_requests, and returns a result.
C21_Terminates ==
    <>( /\ pc = "done"
        /\ (queue = <<>> /\ futures = <<>>) \/ completed_requests >= max_requests
        /\ result.summary["total"] = completed_requests )

\* A run that ended at the ceiling with the frontier not empty.
C21_Witness ==
    /\ pc = "done"
    /\ queue # <<>>
    /\ completed_requests = max_requests
    /\ max_requests >= 2
    /\ result.summary["total"] = max_requests

\* C29: with every fetch ending, a URL in the frontier is in the end
\* reported, unless completed_requests reaches max_requests; a loop left
\* below max_requests leaves the frontier and in_progress empty and every
\* URL ever enqueued in visited.
C29_FrontierIsDrained ==
    /\ \A u \in Urls :
        (u \in queued_urls) ~>
            (ReportIndexes(reports, u) # {} \/ completed_requests >= max_requests)
    /\ []( (pc \in {"finish", "done"} /\ completed_requests < max_requests) =>
            /\ queue = <<>>
            /\ in_progress = {}
            /\ enqueued \subseteq visited )

\* A run of two workers that ended below the ceiling after fetching the
\* two URLs that were enqueued.
C29_Witness ==
    /\ pc = "done"
    /\ max_workers = 2
    /\ completed_requests < max_requests
    /\ Cardinality(enqueued) = 2
    /\ Len(reports) = 2

(***************************************************************************)
(* Properties of _normalize_link.                                          *)
(***************************************************************************)
\* C23: normalization is idempotent: normalizing the URL that
\* _normalize_link returned gives that URL again.
C23_Idempotent ==
    normalized_twice # <<>> => normalized_twice[1] = normalized_once[1]

\* s without one trailing "/", if it has one.
StripOneSlash(s) ==
    IF s # <<>> /\ s[Len(s)] = "/" THEN SubSeq(s, 1, Len(s) - 1) ELSE s

\* C24: for an accepted link the result is the link without its fragment
\* and without exactly one trailing "/" of its path: the rest of the path
\* and the query are as they were written.
C24_StripsOneSlashOfPath ==
    (normalized_once # <<>> /\ normalized_once[1].ok) =>
        LET parsed == UrlParse(raw_link[1].text)
        IN  normalized_once[1].text =
                StripOneSlash(parsed.path)
                \o (IF parsed.query # <<>> THEN <<"?">> \o parsed.query ELSE <<>>)

\* C28: every attempt of a fetch, the first and each retry, comes after a
\* pass of its own through _throttle, and the pass of a retry comes after
\* the backoff sleep for the failure before it.
C28_GateBeforeEachAttempt ==
    /\ [](\A w \in FetchWorkers :
            LET f == fetches[w]
            IN  /\ f.pc = "get" => f.passes = Attempts(w) + 1
                /\ f.pc # "get" => f.passes = Attempts(w)
                /\ f.pc = "backoff" => f.attempt = Attempts(w) /\ f.delay > 0)
    /\ [][\A w \in FetchWorkers :
            LET f == fetches[w]
                g == fetches'[w]
            IN  /\ Len(g.log) > Len(f.log) => f.pc = "get"
                /\ g.passes > f.passes =>
                    /\ g.passes = f.passes + 1
                    /\ f.pc \in {"throttle", "stamp"}
                    /\ rate_limit # NoRateLimit =>
                        gate_log' = Append(gate_log, monotonic)
                /\ (f.pc = "backoff" /\ g.pc # "backoff") =>
                    /\ monotonic >= f.wake
                    /\ g.pc = "throttle"
                    /\ g.passes = f.passes]_vars

\* A retry under a rate limit slept its backoff and then passed the gate.
C28_Witness ==
    /\ rate_limit # NoRateLimit
    /\ \E w \in FetchWorkers :
        /\ fetches[w].pc = "done"
        /\ Attempts(w) = 2
        /\ fetches[w].log[2].slept > 0
        /\ fetches[w].passes = 2
    /\ Len(gate_log) >= 2

\* C31: unused_links is empty in every result: only the report of the
\* start URL has no referrers, so with check_orphans summary.unused is the
\* number of sitemap_only_links.
C31_NoUnusedLinks ==
    /\ result.unused_links = <<>>
    /\ FindUnusedLinks(reports, sitemap_candidates, visited)[1] = <<>>
    /\ (pc = "done" /\ check_orphans) =>
        result.summary["unused"] = Len(result.sitemap_only_links)

\* A crawl with check_orphans reported a linked page, and the sitemap
\* declares a page that was not fetched.
C31_Witness ==
    /\ pc = "done"
    /\ check_orphans
    /\ \E j \in 1..Len(result.reports) :
        /\ result.reports[j].url # start_url
        /\ IsSameDomain(result.reports[j].url)
    /\ result.sitemap_only_links # <<>>
    /\ result.summary["unused"] = Len(result.sitemap_only_links)
    /\ result.unused_links = <<>>

\* Does the crawl expand the page that the site answers for u?
C32_Expandable(u) ==
    LET got == FutureResult(u, site[1][u])
    IN  /\ got.is_html
        /\ got.report.status_code # NoStatusCode
        /\ got.report.status_code < 400

\* The in-scope URLs at link distance at most k from the start URL, through
\* pages that are HTML with a status below 400.
RECURSIVE C32_Within(_)
C32_Within(k) ==
    IF k <= 0 THEN {start_url}
    ELSE LET W == C32_Within(k - 1)
         IN  W \cup {v \in Urls :
                 /\ InScope(v)
                 /\ \E u \in W : C32_Expandable(u) /\ v \in site[1][u].links}

\* C32: when the run ends with neither max_requests nor max_pages reached,
\* the reported URLs are exactly the in-scope URLs at link distance at most
\* max_depth from the start URL, whatever the order of completion.
C32_ReportsAreTheReachable ==
    (pc = "done" /\ site # <<>> /\ completed_requests < max_requests
        /\ pages_crawled < max_pages) =>
        {result.reports[j].url : j \in 1..Len(result.reports)}
            = C32_Within(max_depth)

\* C33: with max_workers = 1 the depths in the frontier never decrease from
\* one position to the next, and URLs are dispatched in non-decreasing
\* depth order.
C33_BreadthFirst ==
    max_workers = 1 =>
        /\ \A i, j \in 1..Len(queue) : i < j => queue[i].depth <= queue[j].depth
        /\ \A i, j \in 1..Len(reports) :
            i < j => fetch_depth[reports[i].url] <= fetch_depth[reports[j].url]
        /\ \A k \in 1..Len(futures) :
            /\ \A j \in 1..Len(reports) :
                fetch_depth[reports[j].url] <= futures[k].depth
            /\ \A i \in 1..Len(queue) : futures[k].depth <= queue[i].depth

\* One worker has fetched pages at depths 0, 1, 2 and 3, and the frontier
\* held two entries at once.
C33_Witness ==
    /\ max_workers = 1
    /\ pc = "done"
    /\ {fetch_depth[u] : u \in DOMAIN fetch_depth} = 0..3
    /\ Len(result.reports) >= 5

====
